---- MODULE Spec2Model ----
(***************************************************************************)
(* Offline-first task store with a sync queue (Change Log) and a batched   *)
(* sync pass: TaskService (createTask / updateTask / deleteTask / getTask) *)
(* and SyncService (sync, processBatch, resolveConflict, updateSyncStatus, *)
(* handleSyncError).  The tables `tasks` and `sync_queue` are the state;   *)
(* one sync() call is a process whose position is `pc`.  Every `await` of  *)
(* sync() is a point where a request handler of the mutation path may run. *)
(***************************************************************************)
EXTENDS Integers, Sequences, FiniteSets, TLC

\* ------------------------------------------------------------- bounds
MaxTasks == 2        \* rows the tasks table may hold
MaxEntries == 2      \* sync_queue rows ever inserted in one behaviour
MaxClock == 1        \* the wall clock reads 1..MaxClock
MaxRetry == 3        \* failures are injected only while retry_count < MaxRetry
MaxBatch == 2        \* SYNC_BATCH_SIZE ranges over 1..MaxBatch
MaxTime == 4         \* updated_at of the arguments of resolveConflict: 0..MaxTime

\* ------------------------------------------------- program constants
RetryThreshold == 3  \* handleSyncError: newRetry >= 3

\* ------------------------------------------------------------- values
NULL == "NULL"                   \* SQL NULL / JS undefined of a string column
NoTime == -1                     \* NULL last_synced_at; also an invalid Date (NaN)
ServerIds == {"s1", "s2"}
TransportReasons == {"Network Error"}
RemoteErrors == {"rejected"}

VARIABLES
  tasks,      \* table tasks: sequence of rows, row i has id i
  queue,      \* table sync_queue in insertion (created_at) order
  nextQid,    \* next sync_queue.id (uuid, modelled as a fresh number)
  now,        \* wall clock
  batchSize,  \* process.env.SYNC_BATCH_SIZE
  pc,         \* position of the sync() call: idle, probe, loop, await, items, body, catch, done
  allItems,   \* sync(): the rows read at the start of the pass
  i,          \* sync(): loop variable (0-based offset into allItems)
  k,          \* sync(): position in processed_items / in the batch of the catch loop
  thrown,     \* sync(): err.message of the failed exchange of the current batch
  synced,     \* sync(): let synced
  failed,     \* sync(): let failed
  errors,     \* sync(): const errors
  processed,  \* sync(): the element of response.processed_items being handled
  wire,       \* history: the batches POSTed to /batch by the current pass
  acked,      \* history: per record, the server_id of the latest success outcome
              \* the current pass has applied ("none" when it applied none)
  streak,     \* history: per sync_queue.id, the passes in a row whose exchange failed it
  env,        \* environment: "open" (any remote), "reference" (the remote is this
              \* repository's POST /batch), "stable" (that remote, always reachable,
              \* and no request of the mutation path any more)
  rc,         \* a caller of resolveConflict: its arguments and the values returned
  mut,        \* a mutation between its two statements: the sync_queue row it has
              \* still to insert (NoMut when no mutation is in that position)
  health      \* POST /sync: outcome of the GET /health call being awaited

dbvars == <<tasks, queue, nextQid, now>>
syncvars == <<pc, allItems, i, k, thrown, synced, failed, errors, processed>>
histvars == <<wire, acked, streak, env, rc>>
reqvars == <<mut, health>>
vars == <<tasks, queue, nextQid, now, batchSize, pc, allItems, i, k, thrown,
          synced, failed, errors, processed, wire, acked, streak, env, rc,
          mut, health>>

\* ------------------------------------------------------------ helpers
Min(a, b) == IF a < b THEN a ELSE b

TaskIds == 1..Len(tasks)

\* new Date(): the clock may or may not have advanced since the last reading
Clock == {now} \cup ({now + 1} \cap (1..MaxClock))

\* DELETE FROM sync_queue WHERE task_id = ?
DeleteEntriesOf(q, taskId) == SelectSeq(q, LAMBDA e: e.task_id # taskId)

QueueIds(q) == {q[n].id : n \in 1..Len(q)}


\* ---------------------------------------------------------------------
\* TaskService
\* ---------------------------------------------------------------------

\* (taskData.title || '').trim()
TrimTitle(t) == IF t \in {NULL, "", " "} THEN "" ELSE t

\* taskData.completed ? 1 : 0        !!row.completed
BoolToInt(b) == IF b = "true" THEN 1 ELSE 0
IntToBool(n) == IF n # 0 THEN "true" ELSE "false"

\* what the POST / route hands to createTask
CreateInputs == {[title |-> "a", description |-> NULL, completed |-> NULL],
                 [title |-> " ", description |-> NULL, completed |-> NULL]}

\* what the PUT /:id route hands to updateTask (undefined fields are NULL)
UpdateInputs == {[title |-> "b", description |-> NULL, completed |-> NULL],
                 [title |-> NULL, description |-> NULL, completed |-> "true"]}

\* a row whose operation column is always 'update'
QueueRowAsUpdate(qid, taskId, operation, data) ==
  [id |-> qid, task_id |-> taskId, operation |-> "update", data |-> data,
   retry_count |-> 0, error_message |-> NULL]

\* INSERT INTO sync_queue (id, task_id, operation, data): retry_count and
\* error_message take their column defaults
QueueRow(qid, taskId, operation, data) ==
  [id |-> qid, task_id |-> taskId, operation |-> operation, data |-> data,
   retry_count |-> 0, error_message |-> NULL]

\* no mutation is between its record statement and its INSERT INTO sync_queue
NoMut == [task_id |-> 0, operation |-> NULL, data |-> NULL, returns |-> NULL]

\* the row INSERT INTO tasks writes and the data JSON of the create entry
CreatedRow(taskData, nowIso) ==
  [title |-> TrimTitle(taskData.title), description |-> taskData.description,
   completed |-> BoolToInt(taskData.completed), updated_at |-> nowIso,
   is_deleted |-> 0, sync_status |-> "pending",
   server_id |-> NULL, last_synced_at |-> NoTime]
RowData(id, row) ==
  [id |-> id, title |-> row.title, description |-> row.description,
   completed |-> IntToBool(row.completed)]

\* the row UPDATE tasks SET title = ?, description = ?, completed = ?, ... leaves
UpdatedRow(existing, updates, nowIso) ==
  [existing EXCEPT
     !.title = IF updates.title # NULL THEN updates.title ELSE existing.title,
     !.description = IF updates.description # NULL THEN updates.description
                     ELSE existing.description,
     !.completed = IF updates.completed # NULL THEN BoolToInt(updates.completed)
                   ELSE existing.completed,
     !.updated_at = nowIso,
     !.sync_status = "pending"]

\* the row UPDATE tasks SET is_deleted = 1, ... leaves; JSON.stringify({ id })
DeletedRow(existing, nowIso) ==
  [existing EXCEPT !.is_deleted = 1, !.updated_at = nowIso,
                   !.sync_status = "pending"]
DeleteData(id) ==
  [id |-> id, title |-> NULL, description |-> NULL, completed |-> NULL]

\* the handlers when nothing runs between their two statements
createTask(taskData) ==
  IF TrimTitle(taskData.title) = ""
  THEN \* throw new Error('Title is required')
       UNCHANGED dbvars
  ELSE /\ Len(tasks) < MaxTasks
       /\ nextQid <= MaxEntries
       /\ \E nowIso \in Clock :
            LET id == Len(tasks) + 1
                row == CreatedRow(taskData, nowIso)
            IN /\ tasks' = Append(tasks, row)
               /\ queue' = Append(queue, QueueRow(nextQid, id, "create",
                                                  RowData(id, row)))
               /\ nextQid' = nextQid + 1
               /\ now' = nowIso

updateTask(id, updates) ==
  IF id \notin TaskIds
  THEN \* if (!existing) return null
       UNCHANGED dbvars
  ELSE /\ nextQid <= MaxEntries
       /\ \E nowIso \in Clock :
            LET row == UpdatedRow(tasks[id], updates, nowIso)
            IN /\ tasks' = [tasks EXCEPT ![id] = row]
               /\ queue' = Append(queue, QueueRow(nextQid, id, "update",
                                                  RowData(id, row)))
               /\ nextQid' = nextQid + 1
               /\ now' = nowIso

deleteTask(id) ==
  IF id \notin TaskIds
  THEN \* if (!existing) return false
       UNCHANGED dbvars
  ELSE /\ nextQid <= MaxEntries
       /\ \E nowIso \in Clock :
            /\ tasks' = [tasks EXCEPT ![id] = DeletedRow(tasks[id], nowIso)]
            /\ queue' = Append(queue, QueueRow(nextQid, id, "delete",
                                               DeleteData(id)))
            /\ nextQid' = nextQid + 1
            /\ now' = nowIso

\* SELECT * FROM tasks WHERE id = ? AND is_deleted = 0, as a Task; NoTask for null
NoTask == [id |-> 0, title |-> NULL, description |-> NULL, completed |-> NULL,
           updated_at |-> NoTime, server_id |-> NULL]
getTask(tk, id) ==
  IF id \in 1..Len(tk) /\ tk[id].is_deleted = 0
  THEN [id |-> id, title |-> tk[id].title, description |-> tk[id].description,
        completed |-> IntToBool(tk[id].completed),
        updated_at |-> tk[id].updated_at, server_id |-> tk[id].server_id]
  ELSE NoTask

\* ---------------------------------------------------------------------
\* SyncService
\* ---------------------------------------------------------------------

\* new Date(x).getTime() compared with >=: false as soon as one side is NaN
TimeGE(a, b) == a # NoTime /\ b # NoTime /\ a >= b

\* a comparison with > in place of >=
resolveConflictStrict(localTask, serverTask) ==
  IF /\ localTask.updated_at # NoTime
     /\ serverTask.updated_at # NoTime
     /\ localTask.updated_at > serverTask.updated_at
  THEN localTask
  ELSE serverTask

resolveConflict(localTask, serverTask) ==
  IF TimeGE(localTask.updated_at, serverTask.updated_at) THEN localTask
  ELSE serverTask

\* COALESCE(?, server_id)
Coalesce(a, b) == IF a # NULL THEN a ELSE b

\* the two statements of updateSyncStatus on the tables (tk, q); an UPDATE
\* whose WHERE matches no row changes nothing
updateSyncStatus(tk, q, taskId, status, serverId, nowIso) ==
  LET tk1 == IF taskId \notin 1..Len(tk) THEN tk
             ELSE IF status = "synced"
             THEN [tk EXCEPT ![taskId] =
                    [@ EXCEPT !.sync_status = "synced",
                              !.server_id = Coalesce(serverId, @),
                              !.last_synced_at = nowIso]]
             ELSE [tk EXCEPT ![taskId] = [@ EXCEPT !.sync_status = "error"]]
      q1 == IF status = "synced" THEN DeleteEntriesOf(q, taskId) ELSE q
  IN [tasks |-> tk1, queue |-> q1]

\* UPDATE sync_queue SET retry_count = ?, error_message = ? WHERE id = ?
SetRetry(q, qid, newRetry, message) ==
  [n \in 1..Len(q) |->
     IF q[n].id = qid
     THEN [q[n] EXCEPT !.retry_count = newRetry, !.error_message = message]
     ELSE q[n]]

handleSyncError(tk, q, item, message, nowIso) ==
  LET newRetry == item.retry_count + 1
      q1 == SetRetry(q, item.id, newRetry, message)
  IN IF newRetry >= RetryThreshold
     THEN updateSyncStatus(tk, q1, item.task_id, "error", NULL, nowIso)
     ELSE [tasks |-> tk, queue |-> q1]

\* a slice whose end index is inclusive
SliceInclusive(items, from, size) ==
  SubSeq(items, from + 1, Min(from + size + 1, Len(items)))

\* allItems.slice(i, i + batchSize)
Slice(items, from, size) == SubSeq(items, from + 1, Min(from + size, Len(items)))
Batch == Slice(allItems, i, batchSize)

\* batch.find((b) => b.task_id === processed.client_id); 0 when there is none
FindItem(batch, clientId) ==
  IF \E n \in 1..Len(batch) : batch[n].task_id = clientId
  THEN CHOOSE n \in 1..Len(batch) :
         /\ batch[n].task_id = clientId
         /\ \A m \in 1..(n - 1) : batch[m].task_id # clientId
  ELSE 0

\* ------------------------------------------------- the remote authority
\* resolved_data of a processed item: a Task snapshot, or absent
NoSnapshot == [present |-> FALSE, title |-> NULL, description |-> NULL,
               completed |-> NULL, updated_at |-> NoTime, server_id |-> NULL]
Snapshots ==
  {[present |-> TRUE, title |-> "r", description |-> "d", completed |-> "true",
    updated_at |-> t, server_id |-> s] :
      t \in 0..(MaxClock + 1), s \in {NULL, "s2"}}

NoOutcome == [client_id |-> 0, status |-> NULL, server_id |-> NULL,
              resolved_data |-> NoSnapshot, error |-> NULL]

\* the elements of processed_items the remote may return for the batch item
\* `item`: one outcome for its record, or an element naming no item of the
\* batch (client_id 0)
OutcomesFor(item) ==
       {[NoOutcome EXCEPT !.client_id = item.task_id, !.status = "success",
                          !.server_id = s] : s \in ServerIds \cup {NULL}}
  \cup {[NoOutcome EXCEPT !.client_id = item.task_id, !.status = "conflict",
                          !.server_id = s, !.resolved_data = d] :
           s \in {NULL}, d \in Snapshots \cup {NoSnapshot}}
  \cup {[NoOutcome EXCEPT !.client_id = item.task_id, !.status = "error",
                          !.error = e] : e \in RemoteErrors}
  \cup {[NoOutcome EXCEPT !.status = "success", !.server_id = "s1"]}

\* POST /batch of this repository: items.map((it) => ({ client_id: it.task_id,
\* server_id: it.data?.server_id || `srv_${random}`, status: 'success' }))
BatchEndpoint(item) ==
  {[NoOutcome EXCEPT !.client_id = item.task_id, !.status = "success",
                     !.server_id = s] : s \in ServerIds}

\* whether sync() takes a handleSyncError branch for this element
IsFailure(tk, batch, p) ==
  /\ FindItem(batch, p.client_id) # 0
  /\ \/ p.status = "error"
     \/ /\ p.status = "conflict"
        /\ \/ ~p.resolved_data.present
           \/ getTask(tk, p.client_id).id = 0

\* ------------------------------------------------------------ sync()
NoAcks == [t \in 1..MaxTasks |-> "none"]

\* const allItems = (await db.all('SELECT * FROM sync_queue ORDER BY created_at')).map(...)
Drain ==
  /\ allItems' = queue
  /\ synced' = 0
  /\ failed' = 0
  /\ errors' = << >>
  /\ i' = 0
  /\ pc' = "loop"
  /\ UNCHANGED <<dbvars, batchSize, k, thrown, processed, histvars>>

\* sync() called directly
sync_start ==
  /\ pc = "idle"
  /\ Drain
  /\ UNCHANGED reqvars

\* GET /health resolves with a 2xx status, or fails in one of these ways
HealthOutcomes == {"ok", "timeout", "refused", "status500"}

\* a probe that takes any HTTP response, whatever its status, for success
checkConnectivityAnyResponse(outcome) == outcome \in {"ok", "status500"}

\* try { await axios.get(.../health, { timeout: 5000 }); return true } catch { return false }
checkConnectivity(outcome) == outcome = "ok"

\* POST /sync: const online = await syncService.checkConnectivity()
sync_request ==
  /\ pc = "idle"
  /\ \E outcome \in HealthOutcomes :
       /\ env = "stable" => outcome = "ok"
       /\ health' = outcome
  /\ pc' = "probe"
  /\ UNCHANGED <<dbvars, batchSize, mut, allItems, i, k, thrown, synced, failed,
                 errors, processed, histvars>>

\* POST /sync: online, so const result = await syncService.sync()
sync_invoke ==
  /\ pc = "probe"
  /\ checkConnectivity(health)
  /\ Drain
  /\ health' = "none"
  /\ UNCHANGED mut

\* POST /sync: if (!online) return res.status(503)
sync_unavailable ==
  /\ pc = "probe"
  /\ ~checkConnectivity(health)
  /\ pc' = "idle"
  /\ health' = "none"
  /\ UNCHANGED <<dbvars, batchSize, mut, allItems, i, k, thrown, synced, failed,
                 errors, processed, histvars>>

\* loop test true: const batch = allItems.slice(i, i + batchSize);
\* processBatch(batch) posts it and sync() is suspended on the exchange
processBatch ==
  /\ pc = "loop"
  /\ i < Len(allItems)
  /\ wire' = Append(wire, [n \in 1..Len(Batch) |-> Batch[n].id])
  /\ thrown' = NULL
  /\ pc' = "await"
  /\ UNCHANGED <<dbvars, batchSize, reqvars, allItems, i, k, synced, failed, errors,
                 processed, acked, streak, env, rc>>

\* axios.post resolves: the for-of over response.processed_items starts
exchange_ok ==
  /\ pc = "await"
  /\ k' = 1
  /\ pc' = "items"
  /\ UNCHANGED <<dbvars, batchSize, reqvars, allItems, i, thrown, synced, failed,
                 errors, processed, histvars>>

\* axios.post rejects (transport error, timeout, non-2xx): the catch block starts
exchange_throw ==
  /\ pc = "await"
  /\ env # "stable"
  /\ \A n \in 1..Len(Batch) : Batch[n].retry_count < MaxRetry
  /\ \E reason \in TransportReasons : thrown' = reason
  /\ k' = 1
  /\ pc' = "catch"
  /\ UNCHANGED <<dbvars, batchSize, reqvars, allItems, i, synced, failed, errors,
                 processed, histvars>>

\* the for-of / for loop moves on; after the last element of the batch the
\* outer loop runs i += batchSize
Advance(inner) ==
  IF k >= Len(Batch)
  THEN /\ i' = i + batchSize
       /\ k' = 0
       /\ pc' = "loop"
  ELSE /\ i' = i
       /\ k' = k + 1
       /\ pc' = inner

\* for (const processed of response.processed_items): the k-th element
items_next ==
  /\ pc = "items"
  /\ \E p \in OutcomesFor(Batch[k]) :
       /\ env # "open" => p \in BatchEndpoint(Batch[k])
       /\ IsFailure(tasks, Batch, p)
            => Batch[FindItem(Batch, p.client_id)].retry_count < MaxRetry
       /\ processed' = p
  /\ pc' = "body"
  /\ UNCHANGED <<dbvars, batchSize, reqvars, allItems, i, k, thrown, synced, failed,
                 errors, histvars>>

\* processed.error || 'Sync error'        processed.error || 'error'
OrElse(a, b) == IF a # NULL /\ a # "" THEN a ELSE b

ErrorItem(item, message) ==
  [task_id |-> item.task_id, operation |-> item.operation, error |-> message]

\* the body of the for-of loop for the element `processed`
items_body ==
  /\ pc = "body"
  /\ LET n == FindItem(Batch, processed.client_id) IN
     IF n = 0
     THEN \* if (!item) continue
          UNCHANGED <<dbvars, synced, failed, errors, acked>>
     ELSE
       LET item == Batch[n] IN
       \E nowIso \in Clock :
         /\ now' = nowIso
         /\ nextQid' = nextQid
         /\ IF processed.status = "success"
            THEN LET db == updateSyncStatus(tasks, queue, item.task_id, "synced",
                                            processed.server_id, nowIso)
                 IN /\ tasks' = db.tasks
                    /\ queue' = db.queue
                    /\ synced' = synced + 1
                    /\ acked' = [acked EXCEPT ![item.task_id] = processed.server_id]
                    /\ UNCHANGED <<failed, errors>>
            ELSE IF processed.status = "conflict"
            THEN LET local == getTask(tasks, item.task_id)
                     serverTask == processed.resolved_data
                 IN IF local.id # 0 /\ serverTask.present
                    THEN LET winner == resolveConflict(local, serverTask) IN
                         /\ tasks' = [tasks EXCEPT ![local.id] =
                              [@ EXCEPT !.title = winner.title,
                                        !.description = winner.description,
                                        !.completed = BoolToInt(winner.completed),
                                        !.updated_at = nowIso,
                                        !.sync_status = "synced",
                                        !.server_id = Coalesce(serverTask.server_id,
                                                               processed.server_id),
                                        !.last_synced_at = nowIso]]
                         /\ queue' = DeleteEntriesOf(queue, local.id)
                         /\ synced' = synced + 1
                         /\ UNCHANGED <<failed, errors, acked>>
                    ELSE LET db == handleSyncError(tasks, queue, item,
                                     "Conflict without resolvable data", nowIso)
                         IN /\ tasks' = db.tasks
                            /\ queue' = db.queue
                            /\ failed' = failed + 1
                            /\ errors' = Append(errors, ErrorItem(item, "Conflict"))
                            /\ UNCHANGED <<synced, acked>>
            ELSE LET db == handleSyncError(tasks, queue, item,
                             OrElse(processed.error, "Sync error"), nowIso)
                 IN /\ tasks' = db.tasks
                    /\ queue' = db.queue
                    /\ failed' = failed + 1
                    /\ errors' = Append(errors,
                                   ErrorItem(item, OrElse(processed.error, "error")))
                    /\ UNCHANGED <<synced, acked>>
  /\ streak' = [streak EXCEPT ![Batch[k].id] =
                  IF IsFailure(tasks, Batch, processed) THEN @ + 1 ELSE 0]
  /\ processed' = NoOutcome
  /\ Advance("items")
  /\ UNCHANGED <<batchSize, reqvars, allItems, thrown, wire, env, rc>>

\* catch (err): the k-th turn of for (const item of batch)
catch_item ==
  /\ pc = "catch"
  /\ LET item == Batch[k] IN
     \E nowIso \in Clock :
       LET db == handleSyncError(tasks, queue, item, thrown, nowIso) IN
       /\ now' = nowIso
       /\ tasks' = db.tasks
       /\ queue' = db.queue
       /\ failed' = failed + 1
       /\ errors' = Append(errors, ErrorItem(item, OrElse(thrown, "error")))
  /\ streak' = [streak EXCEPT ![Batch[k].id] = @ + 1]
  /\ Advance("catch")
  /\ UNCHANGED <<nextQid, batchSize, reqvars, allItems, thrown, synced, processed,
                 wire, acked, env, rc>>

\* a result whose success requires that something was synced
SyncResultWhenSynced ==
  [success |-> (synced > 0), synced_items |-> synced, failed_items |-> failed,
   errors |-> errors]

\* the SyncResult sync() returns
SyncResult ==
  [success |-> (failed = 0), synced_items |-> synced, failed_items |-> failed,
   errors |-> errors]

\* loop test false: return { success: failed === 0, ... }
sync_return ==
  /\ pc = "loop"
  /\ i >= Len(allItems)
  /\ pc' = "done"
  /\ UNCHANGED <<dbvars, batchSize, reqvars, allItems, i, k, thrown, synced, failed,
                 errors, processed, histvars>>

\* POST /sync: res.json(result); the call and its locals are gone
sync_respond ==
  /\ pc = "done"
  /\ pc' = "idle"
  /\ allItems' = << >>
  /\ i' = 0
  /\ k' = 0
  /\ thrown' = NULL
  /\ synced' = 0
  /\ failed' = 0
  /\ errors' = << >>
  /\ wire' = << >>
  /\ acked' = NoAcks
  /\ UNCHANGED <<dbvars, batchSize, reqvars, processed, streak, env, rc>>

\* resolveConflict called on its own, twice on the same arguments
NoCall == [localTask |-> NoTask, serverTask |-> NoSnapshot, calls |-> 0,
           winner |-> "none", again |-> "none"]

\* which of its arguments a call returned
Returned(value, localTask, serverTask) ==
  IF value = localTask THEN "local" ELSE "server"

resolve_call ==
  /\ rc.calls < 2
  /\ LET value == resolveConflict(rc.localTask, rc.serverTask)
         who == Returned(value, rc.localTask, rc.serverTask)
     IN rc' = IF rc.calls = 0
              THEN [rc EXCEPT !.calls = 1, !.winner = who]
              ELSE [rc EXCEPT !.calls = 2, !.again = who]
  /\ UNCHANGED <<dbvars, batchSize, reqvars, syncvars, wire, acked, streak, env>>

\* ---------------------------------------------------- the mutation path
\* a request of the mutation path is served between two steps of sync(),
\* at any of its awaits
CreateTask ==
  /\ pc # "body"
  /\ env # "stable"
  /\ \E taskData \in CreateInputs : createTask(taskData)
  /\ UNCHANGED <<batchSize, reqvars, syncvars, histvars>>

UpdateTask ==
  /\ pc # "body"
  /\ env # "stable"
  /\ \E id \in 1..MaxTasks, updates \in UpdateInputs : updateTask(id, updates)
  /\ UNCHANGED <<batchSize, reqvars, syncvars, histvars>>

DeleteTask ==
  /\ pc # "body"
  /\ env # "stable"
  /\ \E id \in 1..MaxTasks : deleteTask(id)
  /\ UNCHANGED <<batchSize, reqvars, syncvars, histvars>>

\* the handlers statement by statement: the first statement writes the
\* record, the second inserts the sync_queue row; other requests and the
\* steps of sync() run between the two
createTask_insert ==
  /\ mut = NoMut
  /\ pc # "body"
  /\ env # "stable"
  /\ \E taskData \in CreateInputs :
       IF TrimTitle(taskData.title) = ""
       THEN \* throw new Error('Title is required')
            UNCHANGED <<dbvars, mut>>
       ELSE /\ Len(tasks) < MaxTasks
            /\ nextQid <= MaxEntries
            /\ \E nowIso \in Clock :
                 LET id == Len(tasks) + 1
                     row == CreatedRow(taskData, nowIso)
                 IN /\ tasks' = Append(tasks, row)
                    /\ mut' = [task_id |-> id, operation |-> "create",
                               data |-> RowData(id, row), returns |-> "task"]
                    /\ now' = nowIso
                    /\ UNCHANGED <<queue, nextQid>>
  /\ UNCHANGED <<batchSize, health, syncvars, histvars>>

\* updateTask returns this.getTask(id)
updateTask_update ==
  /\ mut = NoMut
  /\ pc # "body"
  /\ env # "stable"
  /\ \E id \in 1..MaxTasks, updates \in UpdateInputs :
       IF id \notin TaskIds
       THEN \* if (!existing) return null
            UNCHANGED <<dbvars, mut>>
       ELSE /\ nextQid <= MaxEntries
            /\ \E nowIso \in Clock :
                 LET row == UpdatedRow(tasks[id], updates, nowIso)
                     after == [tasks EXCEPT ![id] = row]
                 IN /\ tasks' = after
                    /\ mut' = [task_id |-> id, operation |-> "update",
                               data |-> RowData(id, row),
                               returns |-> IF getTask(after, id).id = 0
                                           THEN "null" ELSE "task"]
                    /\ now' = nowIso
                    /\ UNCHANGED <<queue, nextQid>>
  /\ UNCHANGED <<batchSize, health, syncvars, histvars>>

deleteTask_update ==
  /\ mut = NoMut
  /\ pc # "body"
  /\ env # "stable"
  /\ \E id \in 1..MaxTasks :
       IF id \notin TaskIds
       THEN \* if (!existing) return false
            UNCHANGED <<dbvars, mut>>
       ELSE /\ nextQid <= MaxEntries
            /\ \E nowIso \in Clock :
                 /\ tasks' = [tasks EXCEPT ![id] = DeletedRow(tasks[id], nowIso)]
                 /\ mut' = [task_id |-> id, operation |-> "delete",
                            data |-> DeleteData(id), returns |-> "true"]
                 /\ now' = nowIso
                 /\ UNCHANGED <<queue, nextQid>>
  /\ UNCHANGED <<batchSize, health, syncvars, histvars>>

\* second statement: await this.db.run(`INSERT INTO sync_queue ...`)
sync_queue_insert ==
  /\ mut # NoMut
  /\ pc # "body"
  /\ queue' = Append(queue, QueueRow(nextQid, mut.task_id, mut.operation, mut.data))
  /\ nextQid' = nextQid + 1
  /\ mut' = NoMut
  /\ UNCHANGED <<tasks, now, batchSize, health, syncvars, histvars>>

\* the second statement rejects (the handler throws), or the process stops
\* before it: nothing undoes the first statement
sync_queue_insert_fails ==
  /\ mut # NoMut
  /\ pc # "body"
  /\ mut' = NoMut
  /\ UNCHANGED <<dbvars, batchSize, health, syncvars, histvars>>

SyncStep ==
  \/ sync_request
  \/ sync_invoke
  \/ sync_unavailable
  \/ sync_start
  \/ processBatch
  \/ exchange_ok
  \/ exchange_throw
  \/ items_next
  \/ items_body
  \/ catch_item
  \/ sync_return
  \/ sync_respond

Init ==
  /\ tasks = << >>
  /\ queue = << >>
  /\ nextQid = 1
  /\ now = 1
  /\ batchSize \in 1..MaxBatch
  /\ pc = "idle"
  /\ allItems = << >>
  /\ i = 0
  /\ k = 0
  /\ thrown = NULL
  /\ synced = 0
  /\ failed = 0
  /\ errors = << >>
  /\ processed = NoOutcome
  /\ wire = << >>
  /\ acked = NoAcks
  /\ streak = [id \in 1..MaxEntries |-> 0]
  /\ env = "open"
  /\ rc = NoCall
  /\ mut = NoMut
  /\ health = "none"

\* requests of the mutation path may be served at any await of sync()
Next ==
  \/ CreateTask
  \/ UpdateTask
  \/ DeleteTask
  \/ sync_request
  \/ sync_invoke
  \/ sync_unavailable
  \/ sync_start
  \/ processBatch
  \/ exchange_ok
  \/ exchange_throw
  \/ items_next
  \/ items_body
  \/ catch_item
  \/ sync_return
  \/ sync_respond

Spec == Init /\ [][Next]_vars

\* no concurrent activity: the mutation path is served only between passes
CreateTaskIdle == pc = "idle" /\ CreateTask
UpdateTaskIdle == pc = "idle" /\ UpdateTask
DeleteTaskIdle == pc = "idle" /\ DeleteTask

NextSeq ==
  \/ CreateTaskIdle
  \/ UpdateTaskIdle
  \/ DeleteTaskIdle
  \/ sync_request
  \/ sync_invoke
  \/ sync_unavailable
  \/ sync_start
  \/ processBatch
  \/ exchange_ok
  \/ exchange_throw
  \/ items_next
  \/ items_body
  \/ catch_item
  \/ sync_return
  \/ sync_respond

SpecSeq == Init /\ [][NextSeq]_vars

\* resolveConflict on every pair of updated_at values, an invalid Date included
ResolveTimes == {NoTime} \cup (0..MaxTime)
InitResolve ==
  /\ tasks = << >>
  /\ queue = << >>
  /\ nextQid = 1
  /\ now = 1
  /\ batchSize = 1
  /\ pc = "idle"
  /\ allItems = << >>
  /\ i = 0
  /\ k = 0
  /\ thrown = NULL
  /\ synced = 0
  /\ failed = 0
  /\ errors = << >>
  /\ processed = NoOutcome
  /\ wire = << >>
  /\ acked = NoAcks
  /\ streak = [id \in 1..MaxEntries |-> 0]
  /\ env = "open"
  /\ mut = NoMut
  /\ health = "none"
  /\ \E t1 \in ResolveTimes, t2 \in ResolveTimes :
       rc = [NoCall EXCEPT
               !.localTask = [id |-> 1, title |-> "a", description |-> NULL,
                              completed |-> "false", updated_at |-> t1,
                              server_id |-> NULL],
               !.serverTask = [NoSnapshot EXCEPT !.present = TRUE, !.title = "r",
                                                !.updated_at = t2]]

NextResolve == resolve_call

SpecResolve == InitResolve /\ [][NextResolve]_vars

\* the remote is this repository's own POST /batch, reachable or not
InitRef ==
  /\ tasks = << >>
  /\ queue = << >>
  /\ nextQid = 1
  /\ now = 1
  /\ batchSize \in 1..MaxBatch
  /\ pc = "idle"
  /\ allItems = << >>
  /\ i = 0
  /\ k = 0
  /\ thrown = NULL
  /\ synced = 0
  /\ failed = 0
  /\ errors = << >>
  /\ processed = NoOutcome
  /\ wire = << >>
  /\ acked = NoAcks
  /\ streak = [id \in 1..MaxEntries |-> 0]
  /\ env = "reference"
  /\ rc = NoCall
  /\ mut = NoMut
  /\ health = "none"

SpecRef == InitRef /\ [][NextSeq]_vars

\* the handlers of the mutation path statement by statement, interleaved with
\* the steps of sync(); the remote is this repository's POST /batch
NextStmt ==
  \/ createTask_insert
  \/ updateTask_update
  \/ deleteTask_update
  \/ sync_queue_insert
  \/ sync_queue_insert_fails
  \/ sync_request
  \/ sync_invoke
  \/ sync_unavailable
  \/ sync_start
  \/ processBatch
  \/ exchange_ok
  \/ exchange_throw
  \/ items_next
  \/ items_body
  \/ catch_item
  \/ sync_return
  \/ sync_respond

SpecStmt == InitRef /\ [][NextStmt]_vars

\* the handlers of the mutation path alone, statement by statement
NextMut ==
  \/ createTask_insert
  \/ updateTask_update
  \/ deleteTask_update
  \/ sync_queue_insert
  \/ sync_queue_insert_fails

SpecMut == InitRef /\ [][NextMut]_vars

\* the handlers interleaved with sync(), started on a store that already holds the tombstone of a record
\* that was created, deleted and synced
Tombstone ==
  [title |-> "a", description |-> NULL, completed |-> 0, updated_at |-> 1,
   is_deleted |-> 1, sync_status |-> "synced", server_id |-> "s1",
   last_synced_at |-> 1]
InitTomb ==
  /\ tasks = <<Tombstone>>
  /\ queue = << >>
  /\ nextQid = 1
  /\ now = 1
  /\ batchSize \in 1..MaxBatch
  /\ pc = "idle"
  /\ allItems = << >>
  /\ i = 0
  /\ k = 0
  /\ thrown = NULL
  /\ synced = 0
  /\ failed = 0
  /\ errors = << >>
  /\ processed = NoOutcome
  /\ wire = << >>
  /\ acked = NoAcks
  /\ streak = [id \in 1..MaxEntries |-> 0]
  /\ env = "reference"
  /\ rc = NoCall
  /\ mut = NoMut
  /\ health = "none"

SpecTomb == InitTomb /\ [][NextStmt]_vars

\* from some point on the mutation path is quiet and the remote answers
\* success for every submitted item; passes keep being run one at a time
Stabilize ==
  /\ pc = "idle"
  /\ env = "reference"
  /\ env' = "stable"
  /\ UNCHANGED <<dbvars, batchSize, reqvars, syncvars, wire, acked, streak, rc>>

NextConv ==
  \/ CreateTaskIdle
  \/ UpdateTaskIdle
  \/ DeleteTaskIdle
  \/ Stabilize
  \/ sync_request
  \/ sync_invoke
  \/ sync_unavailable
  \/ sync_start
  \/ processBatch
  \/ exchange_ok
  \/ exchange_throw
  \/ items_next
  \/ items_body
  \/ catch_item
  \/ sync_return
  \/ sync_respond

SpecConv == InitRef /\ [][NextConv]_vars /\ WF_vars(SyncStep) /\ WF_vars(Stabilize)

\* ---------------------------------------------------------------------
\* Properties
\* ---------------------------------------------------------------------
Range(f) == {f[n] : n \in DOMAIN f}

\* ids of the entries the current pass has POSTed so far
WireIds == UNION {Range(wire[b]) : b \in 1..Len(wire)}

HasEntries(taskId) == \E n \in 1..Len(queue) : queue[n].task_id = taskId

\* C1: when a pass has returned, every record for which it applied a
\* success{server_id} outcome has that server_id, is synced, has
\* last_synced_at set and has no entry left in the Change Log, and the
\* outcome is counted in synced_count.
C1_SuccessApplied ==
  pc = "done" =>
    /\ \A t \in TaskIds :
         acked[t] \notin {"none", NULL} =>
           /\ tasks[t].server_id = acked[t]
           /\ tasks[t].sync_status = "synced"
           /\ tasks[t].last_synced_at # NoTime
           /\ ~HasEntries(t)
    /\ SyncResult.synced_items >= Cardinality({t \in TaskIds : acked[t] # "none"})

\* C2: between passes, a record is pending or error exactly when the
\* Change Log holds an entry for it.
C2_StatusIffQueued ==
  pc = "idle" =>
    \A t \in TaskIds :
      (tasks[t].sync_status \in {"pending", "error"}) <=> HasEntries(t)

\* C3: an entry leaves the Change Log only in a step that applies a success
\* or resolved-conflict outcome of its record, and only if the entry itself
\* was submitted in an exchange of the pass.
C3_RemovedOnlyAfterSubmitted ==
  [][\A n \in 1..Len(queue) :
       queue[n].id \notin QueueIds(queue') =>
         /\ queue[n].id \in WireIds
         /\ pc = "body"
         /\ processed.status \in {"success", "conflict"}
         /\ processed.client_id = queue[n].task_id]_vars


\* C4: the step in which an entry's exchange fails for the third pass in a
\* row sets its owning record's sync_status to error and leaves the entry in
\* the Change Log; a record's status turns to error only in such a step of
\* one of its drained entries; and every pass drains the whole Change Log,
\* escalated entries included.
C4_EscalatesAtThirdFailure ==
  [][/\ \A id \in 1..MaxEntries :
          (streak[id] = RetryThreshold - 1 /\ streak'[id] = RetryThreshold) =>
            \E n \in 1..Len(queue') :
              /\ queue'[n].id = id
              /\ tasks'[queue'[n].task_id].sync_status = "error"
     /\ \A t \in TaskIds :
          (tasks[t].sync_status # "error" /\ tasks'[t].sync_status = "error") =>
            \E n \in 1..Len(allItems) :
              /\ allItems[n].task_id = t
              /\ streak'[allItems[n].id] >= RetryThreshold
     /\ (pc = "idle" /\ pc' = "loop") => allItems' = queue]_vars


Ids(items) == [n \in 1..Len(items) |-> items[n].id]
RECURSIVE Flatten(_)
Flatten(ws) == IF ws = << >> THEN << >> ELSE Head(ws) \o Flatten(Tail(ws))
Ceil(n, b) == (n + b - 1) \div b

\* C5: the exchanges of a pass carry between 1 and batchSize entries each;
\* put end to end they are the drained entries in Change Log (creation)
\* order, each exactly once, and when the pass has returned there were
\* exactly ceil(N / batchSize) of them for the N drained entries.
C5_BatchesAreSlices ==
  /\ \A b \in 1..Len(wire) : Len(wire[b]) \in 1..batchSize
  /\ Len(Flatten(wire)) <= Len(allItems)
  /\ Flatten(wire) = SubSeq(Ids(allItems), 1, Len(Flatten(wire)))
  /\ \A m, n \in 1..Len(allItems) : m < n => allItems[m].id < allItems[n].id
  /\ pc = "await" => wire[Len(wire)] = Ids(Batch)
  /\ pc = "done" =>
       /\ Len(wire) = Ceil(Len(allItems), batchSize)
       /\ Flatten(wire) = Ids(allItems)

\* a pass over two entries with batch size 1 has returned after two exchanges
C5_Witness ==
  /\ pc = "done"
  /\ batchSize = 1
  /\ Len(allItems) = 2
  /\ Len(wire) = 2

\* C6: each turn of the catch block of a batch whose exchange failed as a
\* whole finds its entry in the Change Log, adds 1 to its retry_count and
\* stores the transport reason in it, adds 1 to failed and one item to errors,
\* removes no entry and marks no record synced; after the last turn the pass
\* goes on with the next batch.
C6_BatchFailureHandled ==
  [][pc = "catch" =>
       /\ \E n \in 1..Len(queue) :
            /\ queue[n].id = Batch[k].id
            /\ Len(queue') = Len(queue)
            /\ queue'[n].id = queue[n].id
            /\ queue'[n].retry_count = queue[n].retry_count + 1
            /\ queue'[n].error_message = thrown
       /\ QueueIds(queue') = QueueIds(queue)
       /\ failed' = failed + 1
       /\ Len(errors') = Len(errors) + 1
       /\ errors'[Len(errors')].task_id = Batch[k].task_id
       /\ \A t \in TaskIds :
            tasks'[t].sync_status = "synced" => tasks[t].sync_status = "synced"
       /\ synced' = synced
       /\ pc' \in {"catch", "loop"}
       /\ pc' = "loop" => i' = i + batchSize]_vars

\* C7: for every pair of updated_at timestamps resolveConflict returns the
\* local task exactly when local.updated_at >= remote.updated_at (a tie
\* included) and the remote one otherwise; a second call on the same
\* arguments returns the same winner, and a call changes no stored state.
C7_LastWriteWins ==
  /\ rc.calls >= 1 =>
       /\ rc.winner \in {"local", "server"}
       /\ (rc.localTask.updated_at # NoTime /\ rc.serverTask.updated_at # NoTime) =>
            (rc.winner = "local"
               <=> rc.localTask.updated_at >= rc.serverTask.updated_at)
  /\ rc.calls = 2 => rc.again = rc.winner
  /\ tasks = << >>
  /\ queue = << >>

\* resolveConflict was called twice on a tie and returned the local task
C7_Witness ==
  /\ rc.calls = 2
  /\ rc.localTask.updated_at # NoTime
  /\ rc.localTask.updated_at = rc.serverTask.updated_at
  /\ rc.winner = "local"

\* C8: the step that handles a conflict outcome carrying a remote snapshot,
\* for a record that has a row in the Record Store, leaves the record with
\* the payload of the last-write-wins winner (the snapshot's when its
\* updated_at is newer than the local one, the local payload otherwise),
\* sync_status synced, no Change Log entry, and synced_count one higher.
C8_ConflictResolved ==
  [][(/\ pc = "body"
      /\ processed.status = "conflict"
      /\ processed.resolved_data.present
      /\ FindItem(Batch, processed.client_id) # 0
      /\ processed.client_id \in TaskIds) =>
       LET t == processed.client_id
           remote == processed.resolved_data
       IN /\ IF remote.updated_at > tasks[t].updated_at
             THEN /\ tasks'[t].title = remote.title
                  /\ tasks'[t].description = remote.description
                  /\ tasks'[t].completed = BoolToInt(remote.completed)
             ELSE /\ tasks'[t].title = tasks[t].title
                  /\ tasks'[t].description = tasks[t].description
                  /\ tasks'[t].completed = tasks[t].completed
          /\ tasks'[t].sync_status = "synced"
          /\ \A n \in 1..Len(queue') : queue'[n].task_id # t
          /\ synced' = synced + 1]_vars

\* C9: a record has a server_id only once it has been synced, and a
\* server_id that is set is never changed or cleared by any step.
C9_ServerIdImmutable ==
  [][/\ \A t \in 1..Len(tasks') :
          tasks'[t].server_id # NULL => tasks'[t].last_synced_at # NoTime
     /\ \A t \in TaskIds :
          tasks[t].server_id # NULL => tasks'[t].server_id = tasks[t].server_id]_vars

Converged ==
  /\ queue = << >>
  /\ \A t \in TaskIds : tasks[t].sync_status = "synced"

\* C10: once the mutation path is quiet and the remote answers success for
\* every submitted item, repeated passes eventually leave every record
\* synced and the Change Log empty.
C10_Convergence == (env = "stable") ~> Converged


\* C11: the record statement of a mutation leaves its record pending (a new
\* record for createTask only, and never one with an empty title); the
\* Change Log grows only by the second statement of a mutation, by exactly
\* one entry, new, for the mutated record and with the operation of the
\* mutation; a createTask rejected for its title writes nothing.
C11_MutationAppendsOneEntry ==
  [][/\ (mut = NoMut /\ mut' # NoMut) =>
          /\ mut'.task_id \in 1..Len(tasks')
          /\ tasks'[mut'.task_id].sync_status = "pending"
          /\ (mut'.operation = "create") <=> (Len(tasks') = Len(tasks) + 1)
          /\ mut'.operation = "delete" => tasks'[mut'.task_id].is_deleted = 1
          /\ queue' = queue
     /\ Len(tasks') > Len(tasks) =>
          /\ tasks'[Len(tasks')].title \notin {"", " "}
          /\ mut = NoMut
          /\ mut'.task_id = Len(tasks')
     /\ Len(queue') > Len(queue) =>
          /\ mut # NoMut
          /\ mut' = NoMut
          /\ Len(queue') = Len(queue) + 1
          /\ SubSeq(queue', 1, Len(queue)) = queue
          /\ queue'[Len(queue')].id \notin QueueIds(queue)
          /\ queue'[Len(queue')].task_id = mut.task_id
          /\ queue'[Len(queue')].operation = mut.operation
          /\ queue'[Len(queue')].retry_count = 0]_vars

\* a createTask and a deleteTask of the same record have both completed
C11_Witness ==
  /\ mut = NoMut
  /\ Len(queue) = 2
  /\ queue[1].operation = "create"
  /\ queue[2].operation = "delete"
  /\ queue[2].task_id = queue[1].task_id
  /\ tasks[queue[2].task_id].is_deleted = 1
  /\ tasks[queue[2].task_id].sync_status = "pending"


\* C12: in no reachable state is a record's mutation applied (the record
\* is pending) while the Change Log holds no entry for that record.
C12_MutationAtomic ==
  \A t \in TaskIds : tasks[t].sync_status = "pending" => HasEntries(t)


\* C13: a pass that drained an empty Change Log returns at once, without an
\* exchange and without touching a record or the Change Log, and its result
\* is {success: true, synced_items: 0, failed_items: 0, errors: []}.
C13_EmptyLogPass ==
  [][/\ (pc \in {"idle", "probe"} /\ pc' = "loop") => UNCHANGED <<tasks, queue>>
     /\ (pc = "loop" /\ allItems = << >>) =>
          /\ pc' = "done"
          /\ wire' = << >>
          /\ UNCHANGED <<tasks, queue>>
          /\ SyncResult' = [success |-> TRUE, synced_items |-> 0,
                            failed_items |-> 0, errors |-> << >>]]_vars

\* a pass over an empty Change Log has returned while a record exists
C13_Witness ==
  /\ pc = "done"
  /\ allItems = << >>
  /\ wire = << >>
  /\ Len(tasks) >= 1


\* C14: the sync trigger goes on to run() exactly when the health call
\* succeeded; issuing the probe and getting its answer leave the Record
\* Store and the Change Log unchanged, and after a failed probe the
\* trigger ends without a drain, an exchange or any change of a retry_count
\* or a record status.
C14_ProbeGatesRun ==
  [][/\ (pc = "idle" /\ pc' = "probe") => UNCHANGED <<tasks, queue>>
     /\ pc = "probe" =>
          /\ UNCHANGED <<tasks, queue>>
          /\ (pc' = "loop") <=> (health = "ok")
          /\ health # "ok" =>
               /\ pc' = "idle"
               /\ UNCHANGED <<allItems, wire, streak, acked, synced, failed, errors>>]_vars

\* the probe of a sync trigger has timed out while an entry is queued
C14_Witness ==
  /\ pc = "probe"
  /\ health = "timeout"
  /\ queue # << >>


\* the drained entries whose retry_count is now d higher than when drained
Raised(d) ==
  {n \in 1..Len(allItems) :
     \E m \in 1..Len(queue) :
       /\ queue[m].id = allItems[n].id
       /\ queue[m].retry_count = allItems[n].retry_count + d}

\* C15: when a pass in which no drained entry was removed has returned,
\* every drained entry has its retry_count either unchanged or higher by
\* exactly 1, the raised ones carry a failure message, and failed_count is
\* the number of raised entries.
C15_RetryPerFailedEntry ==
  (pc = "done" /\ QueueIds(allItems) \subseteq QueueIds(queue)) =>
    /\ Raised(0) \cup Raised(1) = 1..Len(allItems)
    /\ \A m \in 1..Len(queue) :
         queue[m].retry_count > 0 => queue[m].error_message # NULL
    /\ SyncResult.failed_items = Cardinality(Raised(1))


\* C16: the step that handles a conflict outcome counts a failure exactly
\* when the outcome has no snapshot or the Record Store has no row with that
\* id (a soft-deleted row is a row); in that case the entry keeps its place
\* with retry_count + 1 and the message "Conflict without resolvable data",
\* no record's payload or server_id changes, none becomes synced and no
\* entry is removed.
C16_UnresolvableConflict ==
  [][(/\ pc = "body"
      /\ processed.status = "conflict"
      /\ FindItem(Batch, processed.client_id) # 0) =>
       LET item == Batch[FindItem(Batch, processed.client_id)]
           unresolvable == \/ ~processed.resolved_data.present
                           \/ processed.client_id \notin TaskIds
       IN /\ (failed' = failed + 1) <=> unresolvable
          /\ unresolvable =>
               /\ \A t \in TaskIds :
                    /\ tasks'[t].title = tasks[t].title
                    /\ tasks'[t].description = tasks[t].description
                    /\ tasks'[t].completed = tasks[t].completed
                    /\ tasks'[t].server_id = tasks[t].server_id
                    /\ tasks'[t].sync_status = "synced"
                         => tasks[t].sync_status = "synced"
               /\ QueueIds(queue') = QueueIds(queue)
               /\ synced' = synced
               /\ \A m \in 1..Len(queue) :
                    queue[m].id = item.id =>
                      /\ queue'[m].retry_count = queue[m].retry_count + 1
                      /\ queue'[m].error_message = "Conflict without resolvable data"]_vars


\* C17: after every step the result of the pass has success true exactly
\* when failed_items = 0 and as many errors items as failed_items; and the
\* step that counts the failure of the k-th entry of a batch (its outcome is
\* a failure, or the exchange of its batch failed) appends one errors item
\* that names the record and the operation of that entry.
C17_ResultShape ==
  [][/\ SyncResult'.success <=> (SyncResult'.failed_items = 0)
     /\ Len(SyncResult'.errors) = SyncResult'.failed_items
     /\ (\/ pc = "catch"
         \/ pc = "body" /\ IsFailure(tasks, Batch, processed)) =>
          /\ Len(errors') = Len(errors) + 1
          /\ errors'[Len(errors')].task_id = Batch[k].task_id
          /\ errors'[Len(errors')].operation = Batch[k].operation]_vars


\* C18: with no concurrent activity, every entry of a batch is in the
\* Change Log when the batch is sent, and the catch block never handles
\* (counts as failed, escalates) an entry that is no longer there.
C18_NoStaleEntries ==
  [][/\ (pc = "loop" /\ pc' = "await") =>
          \A n \in 1..Len(Batch) : Batch[n].id \in QueueIds(queue)
     /\ pc = "catch" => Batch[k].id \in QueueIds(queue)]_vars

\* C19: when a pass without concurrent mutations has returned success =
\* true, no drained entry is left in the Change Log and the record of every
\* drained entry is synced.
C19_SuccessMeansDrained ==
  (pc = "done" /\ SyncResult.success) =>
    \A n \in 1..Len(allItems) :
      /\ allItems[n].id \notin QueueIds(queue)
      /\ tasks[allItems[n].task_id].sync_status = "synced"

\* C20: a mutation that is going to report not-found (updateTask returning
\* null, deleteTask returning false) writes no record field and inserts no
\* Change Log entry.
C20_NotFoundChangesNothing ==
  [][/\ (mut = NoMut /\ mut' # NoMut /\ mut'.returns \in {"null", "false"}) =>
          UNCHANGED <<tasks, queue>>
     /\ (mut # NoMut /\ mut' = NoMut /\ mut.returns \in {"null", "false"}) =>
          queue' = queue]_vars

============================================================================
